---- MODULE Spec2Model ----
(***************************************************************************)
(* Restaurant review service (src/app.py): a record store holding          *)
(* restaurants and reviews, and a Redis sorted set ranking restaurants by  *)
(* average review sentiment.                                               *)
(*                                                                         *)
(* Units.  A review's sentiment_score is VADER's compound value, a float   *)
(* with four decimals: it is held here as an integer number of 1/10000.    *)
(* get_average_sentiment rounds to two decimals: averages and index scores *)
(* are held as an integer number of 1/100.                                 *)
(***************************************************************************)
EXTENDS Integers, Sequences, FiniteSets, TLC

\* ------------------------------------------------------------------ bounds
\* Restaurant ids the store may allocate (ids are a serial, never reused).
MaxRestaurants == 2
\* Review ids the store may allocate.
MaxReviews == 3
\* Largest path parameter n tried on /leaderboard/top/<n> and /bottom/<n>.
MaxN == 1
\* Restaurant and review ids the store may allocate while requests interleave.
MaxConcRestaurants == 1
MaxConcReviews == 2
\* Reviews one restaurant may own when its average is read back.
MaxAvgReviews == 4

\* Requests that may be in flight at the same time.
Procs == {1, 2}

\* ------------------------------------------------------------------ inputs
\* JSON field that is absent, null or empty: `not data.get(...)` is true for it.
NoText == ""
NoId == 0

Names == {NoText, "Mama's"}
Locations == {NoText, "Lagos"}
\* Review texts tried one request at a time: a negative, a neutral and a
\* positive one. The last stands for any text whose valences sum to 1.0.
Texts == {NoText, "terrible service", "the food", "valence one"}
\* The review texts tried when requests interleave.
ConcTexts == {NoText, "great food!", "terrible service"}
\* The review texts of the stores whose averages are read back.
AvgTexts == {"good", "great food!", "terrible service"}
RestaurantIds == 0..MaxRestaurants
ConcRestaurantIds == 0..MaxConcRestaurants
Ns == 0..MaxN

\* ------------------------------------------------------- sentiment scoring
\* analyzer.polarity_scores(text)['compound'], in 1/10000: the value the
\* external lexicon gives each text (x / sqrt(x*x + 15), four decimals).
polarity_compound(text) ==
    CASE text = "great food!" -> 6588
      [] text = "good" -> 4404
      [] text = "terrible service" -> -4767
      [] text = "valence one" -> 2500
      [] OTHER -> 0

PositiveThreshold == 500
NegativeThreshold == -500

analyze_sentiment(text) ==
    LET compound_score == polarity_compound(text)
        label == IF compound_score >= PositiveThreshold THEN "positive"
                 ELSE IF compound_score <= NegativeThreshold THEN "negative"
                 ELSE "neutral"
    IN  <<compound_score, label>>

\* ------------------------------------------------------------ record store
\* Restaurant.query.get(id): the rows with that primary key (none or one).
RestaurantRows(rests, id) == {r \in rests : r.id = id}
RestaurantExists(rests, id) == RestaurantRows(rests, id) # {}
RestaurantGet(rests, id) == CHOOSE r \in rests : r.id = id

\* restaurant.reviews: the reviews whose foreign key is the restaurant, in id order.
ReviewsOf(revs, id) == SelectSeq(revs, LAMBDA v : v.restaurant_id = id)

RECURSIVE SumScores(_)
SumScores(revs) ==
    IF revs = <<>> THEN 0
    ELSE Head(revs).sentiment_score + SumScores(Tail(revs))

\* round(total / count, 2) of Python for a quotient the floats hold exactly
\* or that is not halfway between two hundredths, for total in 1/10000: the
\* result in 1/100, a tie going to the even neighbour.
Round2(total, count) ==
    LET den == 100 * count
        q == total \div den
        r == total - q * den
    IN  IF 2 * r < den THEN q
        ELSE IF 2 * r > den THEN q + 1
        ELSE IF q % 2 = 0 THEN q ELSE q + 1

Scores(own) == [i \in 1..Len(own) |-> own[i].sentiment_score]

\* The scores are binary floats and sum() adds them left to right, so a mean
\* that is exactly halfway between two hundredths is in general not computed
\* exactly: the float lands just below or just above the half, and round()
\* then goes down or up whatever the parity. These are the score sequences,
\* over the scores of polarity_compound and up to six reviews, whose exact
\* mean is halfway and whose float mean is not (0.4404 * 3 + 0.6588 gives
\* 1.98 or 1.9800000000000002 with the order of the terms).
FloatMeanBelowHalf ==
    {<<4404, 4404, 6588, 4404>>, <<4404, 6588, 4404, 4404>>,
     <<6588, 4404, 4404, 4404>>}
FloatMeanAboveHalf == {<<4404, 4404, 4404, 6588>>}

\* Restaurant.get_average_sentiment over the restaurant's loaded reviews.
get_average_sentiment(own) ==
    IF own = <<>> THEN 0
    ELSE IF Scores(own) \in FloatMeanBelowHalf
         THEN SumScores(own) \div (100 * Len(own))
    ELSE IF Scores(own) \in FloatMeanAboveHalf
         THEN SumScores(own) \div (100 * Len(own)) + 1
    ELSE Round2(SumScores(own), Len(own))

\* Restaurant.to_dict (created_at is not modelled).
to_dict(rests, revs, id) ==
    LET row == RestaurantGet(rests, id)
        own == ReviewsOf(revs, id)
    IN  [id |-> row.id, name |-> row.name, location |-> row.location,
         average_sentiment |-> get_average_sentiment(own),
         total_reviews |-> Len(own)]

\* Review(...) as inserted by add_review.
NewReview(id, restaurant_id, text) ==
    LET s == analyze_sentiment(text)
    IN  [id |-> id, restaurant_id |-> restaurant_id, text |-> text,
         sentiment_score |-> s[1], sentiment_label |-> s[2]]

Range(s) == {s[i] : i \in 1..Len(s)}

\* db.session.delete(restaurant) with cascade='all, delete-orphan'.
DeleteCascade(revs, id) == SelectSeq(revs, LAMBDA v : v.restaurant_id # id)

\* --------------------------------------------------------- str() and int()
RECURSIVE str(_)
\* str(n) for n >= 0: the decimal digits, most significant first.
str(n) == IF n < 10 THEN <<n>> ELSE str(n \div 10) \o <<n % 10>>

RECURSIVE int(_)
\* int(s) of a digit string.
int(s) == IF Len(s) = 1 THEN s[1]
          ELSE 10 * int(SubSeq(s, 1, Len(s) - 1)) + s[Len(s)]

\* ------------------------------------------------------- Redis sorted set
\* Byte-wise order of two member strings.
LexLess(a, b) ==
    \E i \in 1..(Len(b)) :
        /\ \A j \in 1..(i - 1) : j <= Len(a) /\ a[j] = b[j]
        /\ \/ i > Len(a)
           \/ i <= Len(a) /\ a[i] < b[i]

\* The sorted set's order: by score, equal scores by member.
EntryLess(x, y) ==
    \/ x.score < y.score
    \/ x.score = y.score /\ LexLess(x.member, y.member)

RECURSIVE SortedAsc(_)
SortedAsc(idx) ==
    IF idx = {} THEN <<>>
    ELSE LET m == CHOOSE x \in idx : \A y \in idx \ {x} : EntryLess(x, y)
         IN  <<m>> \o SortedAsc(idx \ {m})

Reverse(s) == [i \in 1..Len(s) |-> s[Len(s) + 1 - i]]

\* The slice start..stop (0-based, inclusive, negative counted from the end) of Redis.
Slice(s, start, stop) ==
    LET len == Len(s)
        st0 == IF start < 0 THEN len + start ELSE start
        st == IF st0 < 0 THEN 0 ELSE st0
        sp0 == IF stop < 0 THEN len + stop ELSE stop
        sp == IF sp0 >= len THEN len - 1 ELSE sp0
    IN  IF st > sp \/ st >= len THEN <<>> ELSE SubSeq(s, st + 1, sp + 1)

zrange(idx, start, stop) == Slice(SortedAsc(idx), start, stop)
RECURSIVE SortedDescTiesAsc(_)
\* Mutant: descending scores with equal scores left in ascending member order.
SortedDescTiesAsc(idx) ==
    IF idx = {} THEN <<>>
    ELSE LET m == CHOOSE x \in idx : \A y \in idx \ {x} :
                      \/ x.score > y.score
                      \/ x.score = y.score /\ LexLess(x.member, y.member)
         IN  <<m>> \o SortedDescTiesAsc(idx \ {m})

zrevrange_ties_asc(idx, start, stop) == Slice(SortedDescTiesAsc(idx), start, stop)

zrevrange(idx, start, stop) == Slice(Reverse(SortedAsc(idx)), start, stop)

\* Mutant: ZADD with NX, which never updates a member already there.
zadd_nx(idx, member, score) ==
    IF \E e \in idx : e.member = member THEN idx
    ELSE idx \cup {[member |-> member, score |-> score]}

\* Mutant: a plain set insert, which keeps the member's old entry beside the new one.
zadd_dup(idx, member, score) == idx \cup {[member |-> member, score |-> score]}

\* Mutant: ZADD with INCR, which adds the score to the member's current one.
zadd_incr(idx, member, score) ==
    LET old == {e \in idx : e.member = member}
        base == IF old = {} THEN 0 ELSE (CHOOSE e \in old : TRUE).score
    IN  (idx \ old) \cup {[member |-> member, score |-> base + score]}

\* ZADD key score member: the member's old entry goes, the new one is added.
zadd(idx, member, score) ==
    {e \in idx : e.member # member} \cup {[member |-> member, score |-> score]}

\* Mutant: DEL of the key, which drops every member.
zrem_del_key(idx, member) == {}

\* Mutant: the entry is left in place.
zrem_noop(idx, member) == idx

\* ZREM key member: no error when the member is absent.
zrem(idx, member) == {e \in idx : e.member # member}

\* ------------------------------------------------------ leaderboard logic
\* update_leaderboard(restaurant_id) on a store snapshot: the index after it.
update_leaderboard(rests, revs, idx, restaurant_id) ==
    IF RestaurantExists(rests, restaurant_id) /\ ReviewsOf(revs, restaurant_id) # <<>>
    THEN zadd(idx, str(restaurant_id),
              get_average_sentiment(ReviewsOf(revs, restaurant_id)))
    ELSE idx

\* The loop of the three leaderboard handlers: entries whose restaurant is in
\* the store, each with rank idx + 1 of its place in the slice.
Hydrate(rests, revs, entries) ==
    LET numbered == [i \in 1..Len(entries) |->
                        [rank |-> i, member |-> entries[i].member,
                         score |-> entries[i].score]]
        kept == SelectSeq(numbered,
                          LAMBDA e : RestaurantExists(rests, int(e.member)))
    IN  [i \in 1..Len(kept) |->
            [rank |-> kept[i].rank,
             restaurant |-> to_dict(rests, revs, int(kept[i].member)),
             cached_sentiment |-> kept[i].score]]

get_leaderboard_from_redis(rests, revs, idx) ==
    Hydrate(rests, revs, zrevrange(idx, 0, -1))

top_restaurants(rests, revs, idx, n) ==
    Hydrate(rests, revs, zrevrange(idx, 0, n - 1))

bottom_restaurants(rests, revs, idx, n) ==
    Hydrate(rests, revs, zrange(idx, 0, n - 1))

\* ------------------------------------------------------------------- state
VARIABLES
    restaurants,        \* table restaurants: set of rows [id, name, location]
    reviews,            \* table reviews: rows in id order
    nextRestaurantId,   \* the serial of restaurants.id
    nextReviewId,       \* the serial of reviews.id
    index,              \* the sorted set restaurant:leaderboard: set of [member, score]
    redisUp,            \* whether the Redis server answers
    resp,               \* the response of the last completed request
    procs               \* the requests in flight, one record per worker

vars == <<restaurants, reviews, nextRestaurantId, nextReviewId, index,
          redisUp, resp, procs>>

store == <<restaurants, reviews, nextRestaurantId, nextReviewId>>

\* A response: the handler and its path parameter n, the status, and the
\* body: the leaderboard items, the created entity, the leaderboard_updated flag.
Response(op, n, status, items, created, updated) ==
    [op |-> op, n |-> n, status |-> status, items |-> items,
     created |-> created, leaderboard_updated |-> updated]

IdleProc == [pc |-> "idle", op |-> "none", id |-> 0, text |-> NoText,
             location |-> NoText, loaded |-> {}, deleted |-> {},
             rowdel |-> FALSE, avg |-> 0, review |-> 0,
             committed |-> FALSE, status |-> 0]

Init ==
    /\ restaurants = {}
    /\ reviews = <<>>
    /\ nextRestaurantId = 1
    /\ nextReviewId = 1
    /\ index = {}
    /\ redisUp = TRUE
    /\ resp = Response("none", 0, 0, <<>>, <<>>, FALSE)
    /\ procs = [p \in Procs |-> IdleProc]

NoneInFlight == \A p \in Procs : procs[p].pc = "idle"

\* ------------------------------------------- handlers, one request at a time
\* Mutant: the new restaurant enters the index with score 0.
add_restaurant_ranked(name, location) ==
    /\ NoneInFlight
    /\ IF name = NoText \/ location = NoText
       THEN /\ resp' = Response("add_restaurant", 0, 400, <<>>, <<>>, FALSE)
            /\ UNCHANGED <<store, index>>
       ELSE /\ nextRestaurantId <= MaxRestaurants
            /\ restaurants' = restaurants \cup
                   {[id |-> nextRestaurantId, name |-> name, location |-> location]}
            /\ nextRestaurantId' = nextRestaurantId + 1
            /\ resp' = Response("add_restaurant", 0, 201, <<>>,
                                <<to_dict(restaurants', reviews, nextRestaurantId)>>,
                                FALSE)
            /\ index' = zadd(index, str(nextRestaurantId), 0)
            /\ UNCHANGED <<reviews, nextReviewId>>
    /\ UNCHANGED <<redisUp, procs>>

\* POST /restaurants
add_restaurant(name, location) ==
    /\ NoneInFlight
    /\ IF name = NoText \/ location = NoText
       THEN /\ resp' = Response("add_restaurant", 0, 400, <<>>, <<>>, FALSE)
            /\ UNCHANGED <<store, index>>
       ELSE /\ nextRestaurantId <= MaxRestaurants
            /\ restaurants' = restaurants \cup
                   {[id |-> nextRestaurantId, name |-> name, location |-> location]}
            /\ nextRestaurantId' = nextRestaurantId + 1
            /\ resp' = Response("add_restaurant", 0, 201, <<>>,
                                <<to_dict(restaurants', reviews, nextRestaurantId)>>,
                                FALSE)
            /\ UNCHANGED <<reviews, nextReviewId, index>>
    /\ UNCHANGED <<redisUp, procs>>

\* Mutant: the review is inserted before the restaurant is looked up.
add_review_insert_first(restaurant_id, text) ==
    /\ NoneInFlight
    /\ IF restaurant_id = NoId \/ text = NoText
       THEN /\ resp' = Response("add_review", 0, 400, <<>>, <<>>, FALSE)
            /\ UNCHANGED <<store, index>>
       ELSE LET review == NewReview(nextReviewId, restaurant_id, text)
                revs == Append(reviews, review)
            IN  /\ nextReviewId <= MaxReviews
                /\ reviews' = revs
                /\ nextReviewId' = nextReviewId + 1
                /\ UNCHANGED <<restaurants, nextRestaurantId>>
                /\ index' = update_leaderboard(restaurants, revs, index, restaurant_id)
                /\ resp' = IF RestaurantExists(restaurants, restaurant_id)
                           THEN Response("add_review", 0, 201,
                                         <<>>, <<review>>, TRUE)
                           ELSE Response("add_review", 0, 404,
                                         <<>>, <<>>, FALSE)
    /\ UNCHANGED <<redisUp, procs>>

\* POST /reviews
add_review(restaurant_id, text) ==
    /\ NoneInFlight
    /\ IF restaurant_id = NoId \/ text = NoText
       THEN /\ resp' = Response("add_review", 0, 400, <<>>, <<>>, FALSE)
            /\ UNCHANGED <<store, index>>
       ELSE IF ~RestaurantExists(restaurants, restaurant_id)
       THEN /\ resp' = Response("add_review", 0, 404, <<>>, <<>>, FALSE)
            /\ UNCHANGED <<store, index>>
       ELSE LET review == NewReview(nextReviewId, restaurant_id, text)
                revs == Append(reviews, review)
            IN  /\ nextReviewId <= MaxReviews
                /\ reviews' = revs
                /\ nextReviewId' = nextReviewId + 1
                /\ UNCHANGED <<restaurants, nextRestaurantId>>
                /\ IF redisUp
                   THEN /\ index' = update_leaderboard(restaurants, revs, index,
                                                       restaurant_id)
                        /\ resp' = Response("add_review", 0, 201,
                                            <<>>, <<review>>, TRUE)
                   ELSE \* zadd raises ConnectionError: the request ends in a 500
                        /\ index' = index
                        /\ resp' = Response("add_review", 0, 500,
                                            <<>>, <<>>, FALSE)
    /\ UNCHANGED <<redisUp, procs>>

\* DELETE /restaurants/<id>
delete_restaurant(restaurant_id) ==
    /\ NoneInFlight
    /\ IF ~RestaurantExists(restaurants, restaurant_id)
       THEN /\ resp' = Response("delete_restaurant", 0, 404,
                                <<>>, <<>>, FALSE)
            /\ UNCHANGED <<store, index>>
       ELSE /\ restaurants' = restaurants \ RestaurantRows(restaurants, restaurant_id)
            /\ reviews' = DeleteCascade(reviews, restaurant_id)
            /\ UNCHANGED <<nextRestaurantId, nextReviewId>>
            /\ IF redisUp
               THEN /\ index' = zrem(index, str(restaurant_id))
                    /\ resp' = Response("delete_restaurant", 0, 200,
                                        <<>>, <<>>, FALSE)
               ELSE /\ index' = index
                    /\ resp' = Response("delete_restaurant", 0, 500,
                                        <<>>, <<>>, FALSE)
    /\ UNCHANGED <<redisUp, procs>>

\* GET /leaderboard
get_leaderboard ==
    /\ NoneInFlight
    /\ resp' = IF redisUp
               THEN Response("get_leaderboard", 0, 200,
                             get_leaderboard_from_redis(restaurants, reviews, index),
                             <<>>, FALSE)
               ELSE Response("get_leaderboard", 0, 500, <<>>, <<>>, FALSE)
    /\ UNCHANGED <<store, index, redisUp, procs>>

\* GET /leaderboard/top/<n>
get_top_restaurants(n) ==
    /\ NoneInFlight
    /\ resp' = IF redisUp
               THEN Response("get_top_restaurants", n, 200,
                             top_restaurants(restaurants, reviews, index, n),
                             <<>>, FALSE)
               ELSE Response("get_top_restaurants", n, 500, <<>>, <<>>, FALSE)
    /\ UNCHANGED <<store, index, redisUp, procs>>

\* GET /leaderboard/bottom/<n>
get_bottom_restaurants(n) ==
    /\ NoneInFlight
    /\ resp' = IF redisUp
               THEN Response("get_bottom_restaurants", n, 200,
                             bottom_restaurants(restaurants, reviews, index, n),
                             <<>>, FALSE)
               ELSE Response("get_bottom_restaurants", n, 500, <<>>, <<>>, FALSE)
    /\ UNCHANGED <<store, index, redisUp, procs>>

AddRestaurant == \E name \in Names, location \in Locations : add_restaurant(name, location)
AddReview == \E id \in RestaurantIds, text \in Texts : add_review(id, text)
DeleteRestaurant == \E id \in RestaurantIds : delete_restaurant(id)
GetLeaderboard == get_leaderboard
GetTop == \E n \in Ns : get_top_restaurants(n)
GetBottom == \E n \in Ns : get_bottom_restaurants(n)

Next ==
    \/ AddRestaurant
    \/ AddReview
    \/ DeleteRestaurant
    \/ GetLeaderboard
    \/ GetTop
    \/ GetBottom

\* Requests served one after the other, Redis and the store available.
Spec == Init /\ [][Next]_vars

\* ------------------------------------------------------------ Redis outage
RedisFail ==
    /\ NoneInFlight
    /\ redisUp
    /\ redisUp' = FALSE
    /\ UNCHANGED <<store, index, resp, procs>>

RedisRecover ==
    /\ NoneInFlight
    /\ ~redisUp
    /\ redisUp' = TRUE
    /\ UNCHANGED <<store, index, resp, procs>>

NextFault ==
    \/ Next
    \/ RedisFail
    \/ RedisRecover

\* Requests served one after the other while Redis may stop answering.
SpecFault == Init /\ [][NextFault]_vars

\* ------------------------------------------- handlers running concurrently
\* Each worker serves one request at a time, a step per statement sent to the
\* store or the index. PostgreSQL runs the statements READ COMMITTED: each
\* sees what is committed when it runs; rows a transaction has inserted or
\* deleted stay with the worker until its COMMIT, and a statement that needs
\* a row another open transaction has locked waits for that transaction.

\* Mutant: the index is written first, the store afterwards or not at all.
AfterLookup_index_first(op) == IF op = "add_review" THEN "ul_get" ELSE "dr_zrem"

\* Where a mutating handler goes once its restaurant lookup succeeded: to its
\* own store write (add_review lines 181-192, delete_restaurant line 261).
AfterLookup(op) == IF op = "add_review" THEN "ar_insert" ELSE "dr_load"

\* The request is answered: the worker keeps what it served and how it ended.
\* What its transaction had not committed is rolled back.
Finished(q, status) ==
    [q EXCEPT !.pc = "done", !.status = status, !.text = NoText, !.loaded = {},
              !.location = NoText, !.avg = 0, !.review = 0, !.deleted = {},
              !.rowdel = FALSE]

\* A request goes to the first free worker.
FirstFree(p) == procs[p].pc = "idle" /\ \A o \in Procs : o < p => procs[o].pc # "idle"

Min(S) == CHOOSE x \in S : \A y \in S : x <= y

\* The review is put at its place in the table, which is kept in id order.
InsertById(revs, v) ==
    SelectSeq(revs, LAMBDA x : x.id < v.id) \o <<v>>
        \o SelectSeq(revs, LAMBDA x : x.id > v.id)

\* ---- row locks of the open transactions
\* Worker o's open transaction has deleted the restaurant row.
HoldsRestaurant(o, id) == procs[o].rowdel /\ procs[o].id = id

\* Worker o's open transaction has inserted a review of the restaurant: the
\* foreign key check holds the restaurant row against deletion.
SharesRestaurant(o, id) == procs[o].pc = "ar_commit" /\ procs[o].id = id

\* The committed reviews that refer to worker p's restaurant, its own
\* deleted ones left out.
Referencing(p) ==
    {v.id : v \in Range(ReviewsOf(reviews, procs[p].id))} \ procs[p].deleted

\* The workers whose locks the next statement of worker p waits for.
BlockedBy(p) ==
    CASE procs[p].pc = "dr_delete_review" ->
             {o \in Procs \ {p} : Min(procs[p].loaded) \in procs[o].deleted}
      [] procs[p].pc = "dr_delete_restaurant" ->
             {o \in Procs \ {p} : \/ HoldsRestaurant(o, procs[p].id)
                                  \/ SharesRestaurant(o, procs[p].id)}
      [] procs[p].pc = "dr_ri_wait" ->
             IF Referencing(p) = {} THEN {}
             ELSE {o \in Procs \ {p} : Min(Referencing(p)) \in procs[o].deleted}
      [] procs[p].pc = "ar_fk_wait" ->
             {o \in Procs \ {p} : HoldsRestaurant(o, procs[p].id)}
      [] OTHER -> {}

\* ---- add_restaurant
\* add_restaurant, lines 155-166: validation, then the INSERT of the flush:
\* the id is taken from the serial, the row is not visible yet.
ad_insert(p, name, location) ==
    /\ FirstFree(p)
    /\ LET q == [procs[p] EXCEPT !.op = "add_restaurant"]
       IN  IF name = NoText \/ location = NoText
           THEN /\ procs' = [procs EXCEPT ![p] = Finished(q, 400)]
                /\ UNCHANGED nextRestaurantId
           ELSE /\ nextRestaurantId <= MaxConcRestaurants
                /\ nextRestaurantId' = nextRestaurantId + 1
                /\ procs' = [procs EXCEPT ![p] =
                                [q EXCEPT !.pc = "ad_commit",
                                          !.id = nextRestaurantId,
                                          !.text = name,
                                          !.location = location]]
    /\ UNCHANGED <<restaurants, reviews, nextReviewId, index, redisUp, resp>>

\* add_restaurant, line 166: the COMMIT makes the row visible.
ad_commit(p) ==
    /\ procs[p].pc = "ad_commit"
    /\ restaurants' = restaurants \cup
           {[id |-> procs[p].id, name |-> procs[p].text,
             location |-> procs[p].location]}
    /\ procs' = [procs EXCEPT ![p] = [procs[p] EXCEPT
                    !.pc = "ad_to_dict", !.text = NoText, !.location = NoText,
                    !.committed = TRUE]]
    /\ UNCHANGED <<reviews, nextRestaurantId, nextReviewId, index, redisUp, resp>>

\* add_restaurant, line 168: restaurant.to_dict() reads the row again, the
\* commit having expired it. A row deleted since the commit makes it raise:
\* the request answers 500.
ad_to_dict(p) ==
    /\ procs[p].pc = "ad_to_dict"
    /\ procs' = [procs EXCEPT ![p] =
                    IF RestaurantExists(restaurants, procs[p].id)
                    THEN Finished(procs[p], 201)
                    ELSE Finished(procs[p], 500)]
    /\ UNCHANGED <<store, index, redisUp, resp>>

\* The response is out and the worker is free for the next request.
release(p) ==
    /\ procs[p].pc = "done"
    /\ procs' = [procs EXCEPT ![p] = IdleProc]
    /\ UNCHANGED <<store, index, redisUp, resp>>

\* ---- add_review
\* add_review, lines 172-179: validation and Restaurant.query.get.
ar_begin(p, restaurant_id, text) ==
    /\ FirstFree(p)
    /\ LET q == [procs[p] EXCEPT !.op = "add_review", !.id = restaurant_id,
                                 !.text = text]
       IN  IF restaurant_id = NoId \/ text = NoText
           THEN procs' = [procs EXCEPT ![p] = Finished(q, 400)]
           ELSE IF ~RestaurantExists(restaurants, restaurant_id)
           THEN procs' = [procs EXCEPT ![p] = Finished(q, 404)]
           ELSE /\ nextReviewId
                     + Cardinality({o \in Procs : procs[o].pc = "ar_insert"})
                   <= MaxConcReviews
                /\ procs' = [procs EXCEPT ![p] = [q EXCEPT !.pc = AfterLookup("add_review")]]
    /\ UNCHANGED <<store, index, redisUp, resp>>

\* The foreign key check (line 57) of an inserted review, the restaurant row
\* free of other transactions' deletes: it passes on a visible row.
fk_check(q) ==
    IF RestaurantExists(restaurants, q.id)
    THEN [q EXCEPT !.pc = "ar_commit"]
    ELSE Finished(q, 500)

\* add_review, lines 182-192, the INSERT of the flush: the id is taken from
\* the serial and is not given back, whatever comes of the insert. The
\* foreign key check waits when another transaction has deleted the row.
ar_insert(p) ==
    /\ procs[p].pc = "ar_insert"
    /\ nextReviewId' = nextReviewId + 1
    /\ LET q == [procs[p] EXCEPT !.review = nextReviewId]
       IN  procs' = [procs EXCEPT ![p] =
                        IF \E o \in Procs \ {p} : HoldsRestaurant(o, q.id)
                        THEN [q EXCEPT !.pc = "ar_fk_wait"]
                        ELSE fk_check(q)]
    /\ UNCHANGED <<restaurants, reviews, nextRestaurantId, index, redisUp, resp>>

\* The INSERT goes on once the transaction that deleted the row has ended.
ar_fk_wait(p) ==
    /\ procs[p].pc = "ar_fk_wait"
    /\ BlockedBy(p) = {}
    /\ procs' = [procs EXCEPT ![p] = fk_check(procs[p])]
    /\ UNCHANGED <<store, index, redisUp, resp>>

\* add_review, line 192: the COMMIT makes the review visible.
ar_commit(p) ==
    /\ procs[p].pc = "ar_commit"
    /\ reviews' = InsertById(reviews,
                             NewReview(procs[p].review, procs[p].id, procs[p].text))
    /\ procs' = [procs EXCEPT ![p] = [procs[p] EXCEPT
                    !.pc = "ul_get", !.text = NoText, !.committed = TRUE]]
    /\ UNCHANGED <<restaurants, nextRestaurantId, nextReviewId, index, redisUp, resp>>

\* Mutant: a request whose restaurant is gone at line 92 answers 201.
ul_get_answers_201(p) ==
    /\ procs[p].pc = "ul_get"
    /\ procs' = [procs EXCEPT ![p] =
                    IF RestaurantExists(restaurants, procs[p].id)
                    THEN [procs[p] EXCEPT !.pc = "ul_load"]
                    ELSE Finished(procs[p], 201)]
    /\ UNCHANGED <<store, index, redisUp, resp>>

\* update_leaderboard, line 92: the restaurant is read again. Without it the
\* function returns with no zadd; the restaurant went with its reviews, so
\* review.to_dict() at line 198 reads the review committed at line 192, finds
\* its row deleted and raises: add_review answers 500.
ul_get(p) ==
    /\ procs[p].pc = "ul_get"
    /\ procs' = [procs EXCEPT ![p] =
                    IF RestaurantExists(restaurants, procs[p].id)
                    THEN [procs[p] EXCEPT !.pc = "ul_load"]
                    ELSE Finished(procs[p], 500)]
    /\ UNCHANGED <<store, index, redisUp, resp>>

\* update_leaderboard, lines 93-94: restaurant.reviews is loaded and averaged.
\* An empty list means the reviews were deleted since the commit: no zadd, and
\* review.to_dict() at line 198 raises as above.
ul_load(p) ==
    /\ procs[p].pc = "ul_load"
    /\ LET own == ReviewsOf(reviews, procs[p].id)
       IN  procs' = [procs EXCEPT ![p] =
                        IF own # <<>>
                        THEN [procs[p] EXCEPT !.pc = "ul_zadd",
                                              !.avg = get_average_sentiment(own)]
                        ELSE Finished(procs[p], 500)]
    /\ UNCHANGED <<store, index, redisUp, resp>>

\* update_leaderboard, line 96, and the 201 of add_review.
ul_zadd(p) ==
    /\ procs[p].pc = "ul_zadd"
    /\ index' = zadd(index, str(procs[p].id), procs[p].avg)
    /\ procs' = [procs EXCEPT ![p] = Finished(procs[p], 201)]
    /\ UNCHANGED <<store, redisUp, resp>>

\* ---- delete_restaurant
\* delete_restaurant, lines 256-259.
dr_begin(p, restaurant_id) ==
    /\ FirstFree(p)
    /\ LET q == [procs[p] EXCEPT !.op = "delete_restaurant", !.id = restaurant_id]
       IN  procs' = [procs EXCEPT ![p] =
                        IF ~RestaurantExists(restaurants, restaurant_id)
                        THEN Finished(q, 404)
                        ELSE [q EXCEPT !.pc = AfterLookup("delete_restaurant")]]
    /\ UNCHANGED <<store, index, redisUp, resp>>

\* Where the flush of line 262 goes next: the DELETE of the next loaded
\* review, then the DELETE of the restaurant.
NextDelete(q) ==
    [q EXCEPT !.pc = IF q.loaded = {} THEN "dr_delete_restaurant"
                     ELSE "dr_delete_review"]

\* delete_restaurant, line 261: the delete cascade loads restaurant.reviews.
dr_load(p) ==
    /\ procs[p].pc = "dr_load"
    /\ procs' = [procs EXCEPT ![p] = NextDelete([procs[p] EXCEPT
                    !.loaded = {v.id : v \in Range(ReviewsOf(reviews, procs[p].id))}])]
    /\ UNCHANGED <<store, index, redisUp, resp>>

\* delete_restaurant, line 262, the flush: DELETE of one loaded review, in id
\* order. It waits for a transaction that has deleted the row; a row that is
\* gone by then is passed over.
dr_delete_review(p) ==
    /\ procs[p].pc = "dr_delete_review"
    /\ BlockedBy(p) = {}
    /\ LET v == Min(procs[p].loaded)
           there == \E x \in Range(reviews) : x.id = v
       IN  procs' = [procs EXCEPT ![p] = NextDelete([procs[p] EXCEPT
                        !.loaded = @ \ {v},
                        !.deleted = IF there THEN @ \cup {v} ELSE @])]
    /\ UNCHANGED <<store, index, redisUp, resp>>

\* The foreign key check that ends the DELETE of the restaurant row, the
\* reviews read in id order: a review another transaction is deleting makes
\* it wait, any other review that refers to the restaurant fails the delete.
ri_check(p, q) ==
    LET refs == {v.id : v \in Range(ReviewsOf(reviews, q.id))} \ q.deleted
    IN  IF refs = {} THEN [q EXCEPT !.pc = "dr_commit"]
        ELSE IF \E o \in Procs \ {p} : Min(refs) \in procs[o].deleted
        THEN [q EXCEPT !.pc = "dr_ri_wait"]
        ELSE Finished(q, 500)

\* delete_restaurant, line 262, the flush: DELETE of the restaurant row. It
\* waits for the transactions that deleted the row or inserted a review of
\* it; a row that is gone by then is passed over.
dr_delete_restaurant(p) ==
    /\ procs[p].pc = "dr_delete_restaurant"
    /\ BlockedBy(p) = {}
    /\ procs' = [procs EXCEPT ![p] =
                    IF RestaurantExists(restaurants, procs[p].id)
                    THEN ri_check(p, [procs[p] EXCEPT !.rowdel = TRUE])
                    ELSE [procs[p] EXCEPT !.pc = "dr_commit"]]
    /\ UNCHANGED <<store, index, redisUp, resp>>

\* The foreign key check goes on once the review it waited for is settled.
dr_ri_wait(p) ==
    /\ procs[p].pc = "dr_ri_wait"
    /\ BlockedBy(p) = {}
    /\ procs' = [procs EXCEPT ![p] = ri_check(p, procs[p])]
    /\ UNCHANGED <<store, index, redisUp, resp>>

\* delete_restaurant, line 262: the COMMIT makes the deletes visible.
dr_commit(p) ==
    /\ procs[p].pc = "dr_commit"
    /\ restaurants' = IF procs[p].rowdel
                      THEN restaurants \ RestaurantRows(restaurants, procs[p].id)
                      ELSE restaurants
    /\ reviews' = SelectSeq(reviews, LAMBDA v : v.id \notin procs[p].deleted)
    /\ procs' = [procs EXCEPT ![p] = [procs[p] EXCEPT
                    !.pc = "dr_zrem", !.committed = TRUE,
                    !.deleted = {}, !.rowdel = FALSE]]
    /\ UNCHANGED <<nextRestaurantId, nextReviewId, index, redisUp, resp>>

\* Two transactions wait for each other: PostgreSQL aborts one of them,
\* whichever notices first, and its request answers 500.
deadlock_abort(p) ==
    /\ \E o \in BlockedBy(p) : p \in BlockedBy(o)
    /\ procs' = [procs EXCEPT ![p] = Finished(procs[p], 500)]
    /\ UNCHANGED <<store, index, redisUp, resp>>

\* delete_restaurant, lines 264-266.
dr_zrem(p) ==
    /\ procs[p].pc = "dr_zrem"
    /\ index' = zrem(index, str(procs[p].id))
    /\ procs' = [procs EXCEPT ![p] = Finished(procs[p], 200)]
    /\ UNCHANGED <<store, redisUp, resp>>

AdInsert == \E p \in Procs, name \in Names, location \in Locations :
                ad_insert(p, name, location)
AdCommit == \E p \in Procs : ad_commit(p)
AdToDict == \E p \in Procs : ad_to_dict(p)
Release == \E p \in Procs : release(p)
ArBegin == \E p \in Procs, id \in ConcRestaurantIds, text \in ConcTexts :
               ar_begin(p, id, text)
ArInsert == \E p \in Procs : ar_insert(p)
ArFkWait == \E p \in Procs : ar_fk_wait(p)
ArCommit == \E p \in Procs : ar_commit(p)
UlGet == \E p \in Procs : ul_get(p)
UlLoad == \E p \in Procs : ul_load(p)
UlZadd == \E p \in Procs : ul_zadd(p)
DrBegin == \E p \in Procs, id \in ConcRestaurantIds : dr_begin(p, id)
DrLoad == \E p \in Procs : dr_load(p)
DrDeleteReview == \E p \in Procs : dr_delete_review(p)
DrDeleteRestaurant == \E p \in Procs : dr_delete_restaurant(p)
DrRiWait == \E p \in Procs : dr_ri_wait(p)
DrCommit == \E p \in Procs : dr_commit(p)
DeadlockAbort == \E p \in Procs : deadlock_abort(p)
DrZrem == \E p \in Procs : dr_zrem(p)

NextConc ==
    \/ AdInsert
    \/ AdCommit
    \/ AdToDict
    \/ Release
    \/ ArBegin
    \/ ArInsert
    \/ ArFkWait
    \/ ArCommit
    \/ UlGet
    \/ UlLoad
    \/ UlZadd
    \/ DrBegin
    \/ DrLoad
    \/ DrDeleteReview
    \/ DrDeleteRestaurant
    \/ DrRiWait
    \/ DrCommit
    \/ DeadlockAbort
    \/ DrZrem

\* Every request served by a worker, the workers' statements interleaved.
SpecConc == Init /\ [][NextConc]_vars

\* ------------------------------- concurrent requests on distinct restaurants
\* The restaurants of the store below.
PairIds == {1, 2}

\* No request in flight addresses the restaurant.
NoOtherOn(id) ==
    \A o \in Procs : procs[o].pc \notin {"idle", "done"} => procs[o].id # id

\* Two restaurants were added, one request at a time.
InitPair ==
    /\ restaurants = {[id |-> i, name |-> "Mama's", location |-> "Lagos"] : i \in PairIds}
    /\ reviews = <<>>
    /\ nextRestaurantId = 3
    /\ nextReviewId = 1
    /\ index = {}
    /\ redisUp = TRUE
    /\ resp = Response("none", 0, 0, <<>>, <<>>, FALSE)
    /\ procs = [p \in Procs |-> IdleProc]

ArBeginPair == \E p \in Procs, id \in PairIds, text \in ConcTexts :
                   NoOtherOn(id) /\ ar_begin(p, id, text)
DrBeginPair == \E p \in Procs, id \in PairIds : NoOtherOn(id) /\ dr_begin(p, id)

\* With no two requests on one restaurant no statement waits for a lock:
\* the steps that wait or break a deadlock have no place here.
NextPair ==
    \/ Release
    \/ ArBeginPair
    \/ ArInsert
    \/ ArCommit
    \/ UlGet
    \/ UlLoad
    \/ UlZadd
    \/ DrBeginPair
    \/ DrLoad
    \/ DrDeleteReview
    \/ DrDeleteRestaurant
    \/ DrCommit
    \/ DrZrem

\* The workers' statements interleaved, the requests in flight at the same
\* time always addressing different restaurants.
SpecPair == InitPair /\ [][NextPair]_vars

\* ------------------------------------------------------ reading averages
RECURSIVE query_all(_)
\* Restaurant.query.all(): the ids of the rows, in primary key order.
query_all(rests) ==
    IF rests = {} THEN <<>>
    ELSE LET first == CHOOSE r \in rests : \A o \in rests : r.id <= o.id
         IN  <<first.id>> \o query_all(rests \ {first})

\* GET /restaurants
get_restaurants ==
    /\ NoneInFlight
    /\ LET ids == query_all(restaurants)
       IN  resp' = Response("get_restaurants", 0, 200,
                            [i \in 1..Len(ids) |-> to_dict(restaurants, reviews, ids[i])],
                            <<>>, FALSE)
    /\ UNCHANGED <<store, index, redisUp, procs>>

GetRestaurants == get_restaurants

\* The reviews add_review stores for the given texts, all on one restaurant.
ReviewsFor(restaurant_id, texts) ==
    [i \in 1..Len(texts) |-> NewReview(i, restaurant_id, texts[i])]

\* The store after one restaurant was added and then reviewed up to
\* MaxAvgReviews times, each text and each order of the texts.
InitAvg ==
    /\ restaurants = {[id |-> 1, name |-> "Mama's", location |-> "Lagos"]}
    /\ reviews \in {ReviewsFor(1, texts) :
                       texts \in UNION {[1..n -> AvgTexts] : n \in 0..MaxAvgReviews}}
    /\ nextRestaurantId = 2
    /\ nextReviewId = Len(reviews) + 1
    /\ index = update_leaderboard(restaurants, reviews, {}, 1)
    /\ redisUp = TRUE
    /\ resp = Response("none", 0, 0, <<>>, <<>>, FALSE)
    /\ procs = [p \in Procs |-> IdleProc]

NextAvg == GetRestaurants

\* The averages of every reviewed store are read back.
SpecAvg == InitAvg /\ [][NextAvg]_vars

\* ------------------------------------------------------ derived quantities
HasEntry(idx, id) == \E e \in idx : e.member = str(id)

\* Position (1 = best) of a restaurant in the full descending order of the index.
GlobalRank(idx, id) ==
    LET desc == Reverse(SortedAsc(idx))
    IN  CHOOSE i \in 1..Len(desc) : desc[i].member = str(id)

Abs(x) == IF x < 0 THEN -x ELSE x

\* ------------------------------------------------------------------ claims

\* C1: after any sequence of completed requests served one at a time, the
\* index holds an entry for a restaurant id if and only if the store holds
\* that restaurant and it owns at least one review.
C1_EntryIffReviewed ==
    /\ \A e \in index :
          /\ RestaurantExists(restaurants, int(e.member))
          /\ ReviewsOf(reviews, int(e.member)) # <<>>
    /\ \A r \in restaurants :
          ReviewsOf(reviews, r.id) # <<>> => HasEntry(index, r.id)

\* C1 witness: a reviewed restaurant was just deleted, with its reviews, and
\* the restaurant that remains is reviewed and has its entry.
C1_Witness ==
    /\ resp.op = "delete_restaurant" /\ resp.status = 200
    /\ nextReviewId > Len(reviews) + 1
    /\ index # {}

\* C2 (amended): every index entry's score is the mean of the sentiment
\* scores of the reviews its restaurant owns, rounded to two decimals; with
\* exactly one review of score S it is S rounded to two decimals.
C2_ScoreIsRoundedMean ==
    \A e \in index :
        LET own == ReviewsOf(reviews, int(e.member))
        IN  /\ e.score = get_average_sentiment(own)
            /\ 2 * Abs(100 * Len(own) * e.score - SumScores(own)) <= 100 * Len(own)
            /\ Len(own) = 1 => e.score = Round2(own[1].sentiment_score, 1)

\* C2 witness: one entry averages two reviews whose mean lies halfway between
\* two hundredths, another holds a single review with four decimals.
C2_Witness ==
    /\ \E e \in index :
          LET own == ReviewsOf(reviews, int(e.member))
          IN  Len(own) = 2 /\ SumScores(own) = 2500 /\ e.score = 12
    /\ \E e \in index :
          LET own == ReviewsOf(reviews, int(e.member))
          IN  Len(own) = 1 /\ own[1].sentiment_score = -4767 /\ e.score = -48

\* C2 as stated: with exactly one review of score S the entry's score is S itself.
C2_SingleReviewExact ==
    \A e \in index :
        LET own == ReviewsOf(reviews, int(e.member))
        IN  /\ e.score = get_average_sentiment(own)
            /\ Len(own) = 1 => 100 * e.score = own[1].sentiment_score

\* Worker p has completed the given request with the given status.
Completed(p, op, status) ==
    procs[p].pc = "done" /\ procs[p].op = op /\ procs[p].status = status

\* C3: once two concurrent add_review requests on the same restaurant have
\* both completed, the index score of the restaurant is the average over all
\* of its reviews, both new ones included.
C3_ConcurrentReviewsFresh ==
    \A p, q \in Procs :
        (/\ p # q
         /\ Completed(p, "add_review", 201) /\ Completed(q, "add_review", 201)
         /\ procs[p].id = procs[q].id)
        => \E e \in index :
              /\ e.member = str(procs[p].id)
              /\ e.score = get_average_sentiment(ReviewsOf(reviews, procs[p].id))

\* C4: once delete_restaurant has answered 200 for a restaurant, the store
\* holds neither it nor a review it owned, the index holds no entry for it,
\* and no leaderboard, top-N or bottom-N response names it.
C4_DeletedIsGone ==
    \A p \in Procs :
        Completed(p, "delete_restaurant", 200)
        => LET id == procs[p].id
               Names_(items) == {items[i].restaurant.id : i \in 1..Len(items)}
           IN  /\ ~RestaurantExists(restaurants, id)
               /\ ReviewsOf(reviews, id) = <<>>
               /\ ~HasEntry(index, id)
               /\ id \notin Names_(get_leaderboard_from_redis(restaurants, reviews, index))
               /\ \A n \in Ns :
                     /\ id \notin Names_(top_restaurants(restaurants, reviews, index, n))
                     /\ id \notin Names_(bottom_restaurants(restaurants, reviews, index, n))

\* C5: once a delete_restaurant that answered 200 and a concurrent add_review
\* on the same restaurant have both completed, the index holds no entry for
\* the restaurant.
C5_NoEntryAfterDelete ==
    \A p, q \in Procs :
        (/\ Completed(p, "delete_restaurant", 200)
         /\ procs[q].pc = "done" /\ procs[q].op = "add_review"
         /\ procs[q].id = procs[p].id)
        => ~HasEntry(index, procs[p].id)

\* C6: a request writes the index (zadd of add_review, zrem of
\* delete_restaurant) only after its own store write has been committed.
C6_CommitBeforeIndexWrite ==
    [][\A p \in Procs :
          (procs[p].pc \in {"ul_zadd", "dr_zrem"} /\ procs'[p].pc = "done")
          => /\ procs[p].committed
             /\ procs[p].op = "add_review" => procs[p].review < nextReviewId]_vars

\* C6 witness: an add_review and a delete_restaurant have both committed,
\* written the index and completed.
C6_Witness ==
    \E p, q \in Procs :
        /\ Completed(p, "add_review", 201) /\ procs[p].committed
        /\ Completed(q, "delete_restaurant", 200) /\ procs[q].committed

\* C7: in every bottom-N response each restaurant carries its global
\* descending-score rank, the one the full leaderboard gives it.
C7_BottomRankIsGlobal ==
    (resp.op = "get_bottom_restaurants" /\ resp.status = 200) =>
        \A i \in 1..Len(resp.items) :
            resp.items[i].rank = GlobalRank(index, resp.items[i].restaurant.id)

\* C8: top-N and bottom-N return at most N items, the first N of the
\* descending (ascending) order; N = 0 gives the empty list.
C8_AtMostFirstN ==
    /\ (resp.op = "get_top_restaurants" /\ resp.status = 200) =>
          /\ Len(resp.items) <= resp.n
          /\ \A i \in 1..Len(resp.items) :
                str(resp.items[i].restaurant.id) = Reverse(SortedAsc(index))[i].member
    /\ (resp.op = "get_bottom_restaurants" /\ resp.status = 200) =>
          /\ Len(resp.items) <= resp.n
          /\ \A i \in 1..Len(resp.items) :
                str(resp.items[i].restaurant.id) = SortedAsc(index)[i].member

\* C9: when the store write of add_review or delete_restaurant commits and
\* the index update then fails, the response still reports the primary
\* success (201, 200) and marks the leaderboard as not updated.
C9_IndexFailureStillSucceeds ==
    [][(/\ resp'.op \in {"add_review", "delete_restaurant"}
        /\ <<restaurants, reviews>>' # <<restaurants, reviews>>
        /\ ~redisUp)
       => (resp'.status \in {200, 201} /\ ~resp'.leaderboard_updated)]_vars

\* C10: a request answered 400 or 404 leaves the record store and the index
\* exactly as they were.
C10_RejectedChangesNothing ==
    [][resp'.status \in {400, 404} => UNCHANGED <<store, index>>]_vars

\* C10 witness: a request was rejected while the store and the index held data.
C10_Witness ==
    /\ resp.status \in {400, 404}
    /\ resp.op \in {"add_review", "delete_restaurant"}
    /\ index # {}

\* C11: the index maps each restaurant id to at most one score; an add_review
\* on a restaurant that already has an entry overwrites the entry in place
\* and never increases the number of entries.
C11_OneEntryPerId ==
    [][(resp'.op = "add_review" /\ resp'.status = 201 /\ reviews' # reviews)
       => LET id == resp'.created[1].restaurant_id
          IN  /\ \A e1, e2 \in index' : e1.member = e2.member => e1 = e2
              /\ HasEntry(index, id) => Cardinality(index') = Cardinality(index)
              /\ \E e \in index' :
                    /\ e.member = str(id)
                    /\ e.score = get_average_sentiment(ReviewsOf(reviews', id))]_vars

\* C11 witness: a review was added to a restaurant that already had an entry,
\* and the entry's score changed with it.
C11_Witness ==
    /\ resp.op = "add_review" /\ resp.status = 201
    /\ LET id == resp.created[1].restaurant_id
           own == ReviewsOf(reviews, id)
       IN  /\ Len(own) >= 2
           /\ HasEntry(index, id)
           /\ get_average_sentiment(own)
                 # get_average_sentiment(SubSeq(own, 1, Len(own) - 1))

\* C12: the upsert is idempotent: once add_review has run update_leaderboard
\* for a restaurant, running update_leaderboard for it again with the store
\* unchanged leaves the whole index identical; in any state a second run
\* changes nothing the first run left.
C12_UpsertIdempotent ==
    /\ (resp.op = "add_review" /\ resp.status = 201) =>
          update_leaderboard(restaurants, reviews, index,
                             resp.created[1].restaurant_id) = index
    /\ \A id \in RestaurantIds :
          LET once == update_leaderboard(restaurants, reviews, index, id)
          IN  update_leaderboard(restaurants, reviews, once, id) = once

\* C12 witness: add_review has just written a non-zero score for a restaurant
\* while the index also holds another restaurant's entry.
C12_Witness ==
    /\ resp.op = "add_review" /\ resp.status = 201
    /\ Cardinality(index) = 2
    /\ \E e \in index :
          e.member = str(resp.created[1].restaurant_id) /\ e.score # 0

\* The rearrangements of a sequence.
Orders(s) ==
    {[i \in 1..Len(s) |-> s[f[i]]] :
        f \in {g \in [1..Len(s) -> 1..Len(s)] :
                  \A i, j \in 1..Len(s) : g[i] = g[j] => i = j}}

\* C13: the average_sentiment a restaurant reports is 0 when it owns no
\* review and otherwise the mean of its reviews' scores rounded to two
\* decimals, and it depends only on the multiset of the scores: every order
\* of inserting the same reviews gives the same value.
C13_AverageOrderIndependent ==
    (resp.op = "get_restaurants" /\ resp.status = 200) =>
        \A i \in 1..Len(resp.items) :
            LET own == ReviewsOf(reviews, resp.items[i].id)
                avg == resp.items[i].average_sentiment
            IN  /\ own = <<>> => avg = 0
                /\ 2 * Abs(100 * Len(own) * avg - SumScores(own)) <= 100 * Len(own)
                /\ \A other \in Orders(own) : get_average_sentiment(other) = avg

\* The restaurant ids of the items of a leaderboard response, in order.
ItemIds(items) == [i \in 1..Len(items) |-> items[i].restaurant.id]

\* C14: for every index state, with N the number of entries, the ids of
\* bottom-N are exactly the reverse of the ids of top-N and of the full
\* leaderboard, entries with equal scores included.
C14_AscendingIsReverseOfDescending ==
    LET n == Cardinality(index)
        asc == ItemIds(bottom_restaurants(restaurants, reviews, index, n))
    IN  /\ asc = Reverse(ItemIds(top_restaurants(restaurants, reviews, index, n)))
        /\ asc = Reverse(ItemIds(get_leaderboard_from_redis(restaurants, reviews, index)))

\* C14 witness: the full leaderboard was served from an index of two entries
\* with equal scores.
C14_Witness ==
    /\ resp.op = "get_leaderboard" /\ resp.status = 200 /\ Len(resp.items) = 2
    /\ Cardinality(index) = 2
    /\ \A e1, e2 \in index : e1.score = e2.score

\* The restaurants named by the leaderboard, a top-N or a bottom-N response
\* served from the given store and index.
ListedIds(rests, revs, idx) ==
    Range(ItemIds(get_leaderboard_from_redis(rests, revs, idx)))
    \cup UNION {Range(ItemIds(top_restaurants(rests, revs, idx, n)))
                \cup Range(ItemIds(bottom_restaurants(rests, revs, idx, n))) :
                   n \in 0..Cardinality(idx)}

\* C15: add_restaurant leaves the index unchanged, and after every step that
\* changes the store or the index a restaurant to which no review has been
\* added has no index entry and is named by no leaderboard, top-N or
\* bottom-N response.
C15_NewRestaurantUnranked ==
    [][/\ (resp'.op = "add_restaurant" /\ resp'.status = 201) => index' = index
       /\ <<restaurants, reviews, index>>' # <<restaurants, reviews, index>>
          => LET unreviewed == {r.id : r \in {o \in restaurants' :
                                                ReviewsOf(reviews', o.id) = <<>>}}
             IN  \/ unreviewed = {}
                 \/ /\ \A id \in unreviewed : ~HasEntry(index', id)
                    /\ unreviewed \cap ListedIds(restaurants', reviews', index') = {}]_vars

\* C15 witness: a restaurant was created while the index ranked another one.
C15_Witness ==
    /\ resp.op = "add_restaurant" /\ resp.status = 201
    /\ RestaurantExists(restaurants, resp.created[1].id)
    /\ index # {}

\* A request that addresses the restaurant is between its first and last statement.
InFlightOn(id) ==
    \E p \in Procs : procs[p].pc \notin {"idle", "done"} /\ procs[p].id = id

\* The index holds for the restaurant what requests served one after the
\* other leave: its rounded average if it is stored and reviewed, else nothing.
AsIfSequential(id) ==
    IF RestaurantExists(restaurants, id) /\ ReviewsOf(reviews, id) # <<>>
    THEN {e \in index : e.member = str(id)}
            = {[member |-> str(id),
                score |-> get_average_sentiment(ReviewsOf(reviews, id))]}
    ELSE ~HasEntry(index, id)

\* C16: mutations on different restaurants are independent: a step of an
\* add_review or delete_restaurant on R changes no entry but R's, and however
\* the statements of concurrent mutations on distinct restaurants interleave,
\* a restaurant with no request in flight has the entry that running the
\* requests one after the other gives it.
C16_DistinctRestaurantsIndependent ==
    [][/\ \A e \in (index \ index') \cup (index' \ index) :
             \E p \in Procs :
                 /\ procs[p].pc \in {"ul_zadd", "dr_zrem"}
                 /\ procs'[p].pc = "done"
                 /\ e.member = str(procs[p].id)
       /\ \A id \in PairIds : ~InFlightOn(id)' => AsIfSequential(id)']_vars

\* C16 witness: a delete_restaurant between its commit and its zrem while an
\* add_review on the other restaurant is between its commit and its zadd,
\* the restaurant being deleted still ranked.
C16_Witness ==
    \E p, q \in Procs :
        /\ procs[p].pc = "dr_zrem" /\ procs[q].pc = "ul_zadd"
        /\ procs[p].id # procs[q].id
        /\ HasEntry(index, procs[p].id)

\* C17: in every /leaderboard response, one served while the index holds an
\* entry for a restaurant missing from the store included, the ranks of the
\* items are exactly 1, 2, ..., k, where k is the number of items returned
\* (total_restaurants is len() of the items).
C17_RanksContiguous ==
    (resp.op = "get_leaderboard" /\ resp.status = 200) =>
        \A i \in 1..Len(resp.items) : resp.items[i].rank = i

\* C18: whenever add_review answers 201 (its body carries leaderboard_updated
\* = true), the statement that completed the request is the zadd of the
\* restaurant's entry, however the request interleaves with concurrent
\* delete_restaurant requests on the same restaurant.
C18_UpdatedMeansWritten ==
    [][\A p \in Procs :
          (/\ procs[p].pc # "done" /\ procs'[p].pc = "done"
           /\ procs'[p].op = "add_review" /\ procs'[p].status = 201)
          => /\ procs[p].pc = "ul_zadd"
             /\ [member |-> str(procs[p].id), score |-> procs[p].avg] \in index']_vars

\* C18 witness: an add_review answered 201 and a delete_restaurant on the
\* same restaurant answered 200, the zadd having come after the zrem.
C18_Witness ==
    \E p, q \in Procs :
        /\ Completed(p, "add_review", 201)
        /\ Completed(q, "delete_restaurant", 200)
        /\ procs[p].id = procs[q].id
        /\ HasEntry(index, procs[p].id)
====
